---- MODULE Spec2Model ----
(***************************************************************************)
(* State-machine model of the SoloScale Legal intake application           *)
(* (src/unnamed/part_000, the v0.1.5 single-page React application).       *)
(*                                                                         *)
(* Conventions                                                             *)
(*  - A JavaScript string is a sequence of one-character strings, so that  *)
(*    toLowerCase, trim, replace and includes are computed, not assumed.   *)
(*  - An optional value (undefined / null) is a sequence of length 0 or 1: *)
(*    None is << >> and Some(x) is << x >>.                                *)
(*  - One React event handler is one action: all the setState calls of a   *)
(*    handler are applied in one step (React batches them), and the        *)
(*    component-local state of a component that is unmounted by the step   *)
(*    is dropped, that of a component mounted by the step is initialised.  *)
(*  - Callbacks that run later (the triage response, a FileReader load, a  *)
(*    setTimeout of the auth screen) are actions of their own.             *)
(***************************************************************************)
EXTENDS Integers, Sequences, FiniteSets, TLC

-----------------------------------------------------------------------------
(* Options                                                                 *)

None == << >>
Some(x) == << x >>
IsSome(o) == Len(o) = 1
Get(o) == o[1]

-----------------------------------------------------------------------------
(* Text                                                                    *)

UpperChars == << "A","B","C","D","E","F","G","H","I","J","K","L","M",
                 "N","O","P","Q","R","S","T","U","V","W","X","Y","Z" >>
LowerChars == << "a","b","c","d","e","f","g","h","i","j","k","l","m",
                 "n","o","p","q","r","s","t","u","v","w","x","y","z" >>
DigitChars == { "0","1","2","3","4","5","6","7","8","9" }
WhiteChars == { " ", "\t", "\n" }

Range(s) == { s[i] : i \in 1..Len(s) }

\* String.prototype.toLowerCase, one character
LowerChar(c) ==
  IF c \in Range(UpperChars)
  THEN LowerChars[CHOOSE i \in 1..Len(UpperChars) : UpperChars[i] = c]
  ELSE c

\* String.prototype.toLowerCase
ToLowerCase(s) == [ i \in 1..Len(s) |-> LowerChar(s[i]) ]

RECURSIVE TrimStart(_)
TrimStart(s) ==
  IF s = << >> THEN s
  ELSE IF Head(s) \in WhiteChars THEN TrimStart(Tail(s)) ELSE s

RECURSIVE TrimEnd(_)
TrimEnd(s) ==
  IF s = << >> THEN s
  ELSE IF s[Len(s)] \in WhiteChars THEN TrimEnd(SubSeq(s, 1, Len(s) - 1)) ELSE s

\* String.prototype.trim
Trim(s) == TrimEnd(TrimStart(s))

\* String.prototype.includes
Includes(s, t) ==
  \E i \in 0..(Len(s) - Len(t)) : SubSeq(s, i + 1, i + Len(t)) = t

\* JavaScript truthiness of a string
Truthy(s) == s # << >>

\* JavaScript truthiness of an optional string (undefined is falsy)
TruthyOpt(o) == IsSome(o) /\ Truthy(Get(o))

-----------------------------------------------------------------------------
(* Configuration: the service catalog                                      *)

SERVICES == <<
  [ id |-> "contract_review",          basePrice |-> 250 ],
  [ id |-> "demand_letter",            basePrice |-> 200 ],
  [ id |-> "affidavit",                basePrice |-> 150 ],
  [ id |-> "deposition_questionnaire", basePrice |-> 350 ],
  [ id |-> "motion",                   basePrice |-> 500 ],
  [ id |-> "filing_lawsuit",           basePrice |-> 800 ],
  [ id |-> "filing_answer",            basePrice |-> 600 ],
  [ id |-> "attorney_review",          basePrice |-> 100 ] >>

\* serviceId: ServiceId | null
NoService == "null"

CatalogIds == { SERVICES[i].id : i \in 1..Len(SERVICES) }

\* SERVICES.find(s => s.id === sid): a sequence of length 0 (undefined) or 1
FindService(sid) ==
  IF sid \in CatalogIds
  THEN Some(SERVICES[CHOOSE i \in 1..Len(SERVICES) : SERVICES[i].id = sid])
  ELSE None

\* service?.basePrice || 0
BasePriceOrZero(sid) ==
  IF IsSome(FindService(sid)) THEN Get(FindService(sid)).basePrice ELSE 0

-----------------------------------------------------------------------------
(* Values of the intake form                                               *)

\* details.pageCount: undefined, or the result of parseInt (a number or NaN)
PcUndefined == [ kind |-> "undefined", n |-> 0 ]
PcNaN == [ kind |-> "NaN", n |-> 0 ]
PcNumber(k) == [ kind |-> "number", n |-> k ]

\* pageCount > k in JavaScript: false for undefined and for NaN
PcGreater(pc, k) == pc.kind = "number" /\ pc.n > k

\* details: {} (the fields the code reads: description, pageCount,
\* opposingParty; amountDispute and caseNumber are stored and never read)
EmptyDetails ==
  [ description |-> None, pageCount |-> PcUndefined, opposingParty |-> None ]

EmptyContact == [ name |-> << >>, email |-> << >>, phone |-> << >> ]

\* The initial intakeData of App, and the value startIntake sets
FreshIntakeData ==
  [ jurisdiction    |-> "TX",
    serviceId       |-> NoService,
    triageReasoning |-> None,
    urgency         |-> "standard",
    details         |-> EmptyDetails,
    documents       |-> << >>,
    contact         |-> EmptyContact,
    signature       |-> None ]

-----------------------------------------------------------------------------
(* MockBackend                                                             *)

Str_evil_corp == << "e","v","i","l"," ","c","o","r","p" >>
Str_bad_guy == << "b","a","d"," ","g","u","y" >>
Str_fraud_llc == << "f","r","a","u","d"," ","l","l","c" >>

conflictBlacklist == << Str_evil_corp, Str_bad_guy, Str_fraud_llc >>

IsAlnumLower(c) == c \in Range(LowerChars) \cup DigitChars

\* A normalize that would lower the case and keep the punctuation
Normalize_KeepingPunctuation(str) == ToLowerCase(str)

\* str.toLowerCase().replace(/[^a-z0-9]/g, '')
Normalize(str) == SelectSeq(ToLowerCase(str), IsAlnumLower)

\* checkConflict(name)
CheckConflict(name) ==
  IF ~Truthy(name) THEN FALSE
  ELSE LET normalizedInput == Normalize(name)
       IN  \E k \in 1..Len(conflictBlacklist) :
             Includes(normalizedInput, Normalize(conflictBlacklist[k]))

\* A createMatter that would flag the matter without logging the conflict
NewMatter_ConflictNotLogged(data, price) ==
  LET isConflict ==
        IF TruthyOpt(data.details.opposingParty)
        THEN CheckConflict(Get(data.details.opposingParty))
        ELSE FALSE
      signedName ==
        IF IsSome(data.signature) THEN Some(Get(data.signature).signedName)
        ELSE None
  IN  [ status   |-> IF isConflict THEN "conflict_flagged" ELSE "new",
        data     |-> data,
        price    |-> price,
        auditLog |-> << [ action |-> "MATTER_CREATED", details |-> None ],
                        [ action |-> "AGREEMENT_SIGNED", details |-> signedName ] >> ]

\* A createMatter that would file an unflagged matter as 'pending'
NewMatter_PendingStatus(data, price) ==
  LET isConflict ==
        IF TruthyOpt(data.details.opposingParty)
        THEN CheckConflict(Get(data.details.opposingParty))
        ELSE FALSE
      signedName ==
        IF IsSome(data.signature) THEN Some(Get(data.signature).signedName)
        ELSE None
      log == << [ action |-> "MATTER_CREATED", details |-> None ],
                [ action |-> "AGREEMENT_SIGNED", details |-> signedName ] >>
  IN  [ status   |-> IF isConflict THEN "conflict_flagged" ELSE "pending",
        data     |-> data,
        price    |-> price,
        auditLog |-> IF isConflict
                     THEN Append(log, [ action  |-> "CONFLICT_DETECTED",
                                        details |-> data.details.opposingParty ])
                     ELSE log ]

\* The Matter createMatter(data, price) builds (id, createdAt and the
\* timestamps are not modelled)
NewMatter(data, price) ==
  LET isConflict ==
        IF TruthyOpt(data.details.opposingParty)
        THEN CheckConflict(Get(data.details.opposingParty))
        ELSE FALSE
      signedName ==
        IF IsSome(data.signature) THEN Some(Get(data.signature).signedName)
        ELSE None
      log == << [ action |-> "MATTER_CREATED", details |-> None ],
                [ action |-> "AGREEMENT_SIGNED", details |-> signedName ] >>
  IN  [ status   |-> IF isConflict THEN "conflict_flagged" ELSE "new",
        data     |-> data,
        price    |-> price,
        auditLog |-> IF isConflict
                     THEN Append(log, [ action  |-> "CONFLICT_DETECTED",
                                        details |-> data.details.opposingParty ])
                     ELSE log ]

-----------------------------------------------------------------------------
(* PaymentGateway and EngagementLetter: prices                             *)

\* subtotal * 0.5.  Every subtotal the code computes is a multiple of 10
\* (base prices are, and pageCount is an integer made by parseInt), so the
\* half is exact; a subtotal that were odd would show as 2*total # 3*subtotal.
HalfOf(x) == x \div 2

\* A priceBreakdown that would take the rush surcharge on the base price
\* only, not on the complexity adjustment
PriceBreakdown_RushOnBase(serviceId, data, urgency) ==
  LET base == BasePriceOrZero(serviceId)
      c1 == IF serviceId = "contract_review" /\ PcGreater(data.details.pageCount, 10)
            THEN (data.details.pageCount.n - 10) * 10
            ELSE 0
      complexity == IF serviceId = "filing_lawsuit" THEN 200 ELSE c1
      subtotal == base + complexity
      rush == IF urgency = "rush" THEN HalfOf(base) ELSE 0
  IN  [ base |-> base, complexity |-> complexity, rush |-> rush,
        total |-> subtotal + rush ]

\* A breakdown that would charge every page of a contract longer than ten
\* pages
PriceBreakdown_EveryPage(serviceId, data, urgency) ==
  LET base == BasePriceOrZero(serviceId)
      c1 == IF serviceId = "contract_review" /\ PcGreater(data.details.pageCount, 10)
            THEN data.details.pageCount.n * 10 ELSE 0
      complexity == IF serviceId = "filing_lawsuit" THEN 200 ELSE c1
      subtotal == base + complexity
      rush == IF urgency = "rush" THEN HalfOf(subtotal) ELSE 0
  IN  [ base |-> base, complexity |-> complexity, rush |-> rush,
        total |-> subtotal + rush ]

\* PaymentGateway.priceBreakdown
PriceBreakdown(serviceId, data, urgency) ==
  LET base == BasePriceOrZero(serviceId)
      c1 == IF serviceId = "contract_review" /\ PcGreater(data.details.pageCount, 10)
            THEN (data.details.pageCount.n - 10) * 10
            ELSE 0
      complexity == IF serviceId = "filing_lawsuit" THEN 200 ELSE c1
      subtotal == base + complexity
      rush == IF urgency = "rush" THEN HalfOf(subtotal) ELSE 0
  IN  [ base |-> base, complexity |-> complexity, rush |-> rush,
        total |-> subtotal + rush ]

\* A letter that would show the base price alone
DisplayPrice_BaseOnly(data) == BasePriceOrZero(data.serviceId)

\* EngagementLetter.displayPrice
DisplayPrice(data) ==
  LET p0 == BasePriceOrZero(data.serviceId)
      p1 == IF data.serviceId = "contract_review" /\ PcGreater(data.details.pageCount, 10)
            THEN p0 + (data.details.pageCount.n - 10) * 10
            ELSE p0
  IN  IF data.serviceId = "filing_lawsuit" THEN p1 + 200 ELSE p1

\* A canSign that would look at the typed name only, not at the checkbox
CanSign_NameOnly(agreed, signature, data) ==
  Trim(ToLowerCase(signature)) = Trim(ToLowerCase(data.contact.name))

\* EngagementLetter.canSign
CanSign(agreed, signature, data) ==
  agreed /\ Trim(ToLowerCase(signature)) = Trim(ToLowerCase(data.contact.name))

-----------------------------------------------------------------------------
(* ContactForm: validators                                                 *)

NotSpaceOrAt(c) == c \notin WhiteChars \cup { "@" }

\* validateEmail: /^[^\s@]+@[^\s@]+\.[^\s@]+$/.test(email)
ValidateEmail(email) ==
  \E i \in 2..Len(email), j \in 4..(Len(email) - 1) :
    /\ j >= i + 2
    /\ email[i] = "@"
    /\ email[j] = "."
    /\ \A k \in 1..Len(email) : k # i => NotSpaceOrAt(email[k])

IsDigit(c) == c \in DigitChars

\* value.replace(/[^\d]/g, '')
DigitsOf(value) == SelectSeq(value, IsDigit)

\* validatePhone
ValidatePhone(phone) == Len(DigitsOf(phone)) = 10

\* formatPhoneNumber
FormatPhoneNumber(value) ==
  LET numbers == DigitsOf(value)
      n == Len(numbers)
  IN  IF n <= 3 THEN numbers
      ELSE IF n <= 6
      THEN << "(" >> \o SubSeq(numbers, 1, 3) \o << ")", " " >> \o SubSeq(numbers, 4, n)
      ELSE << "(" >> \o SubSeq(numbers, 1, 3) \o << ")", " " >> \o SubSeq(numbers, 4, 6)
           \o << "-" >> \o SubSeq(numbers, 7, IF n < 10 THEN n ELSE 10)

-----------------------------------------------------------------------------
(* State                                                                   *)

VARIABLES
  view,              \* App: 'home' | 'auth' | 'not-eligible' | 'intake' | 'success' | 'portal' | 'admin'
  intakeStep,        \* App: index into STEPS
  user,              \* App: UserProfile | null
  aiRecommendation,  \* App: AiRecommendation | null
  showFullCatalog,   \* App
  navTarget,         \* App: number | null
  intakeData,        \* App: IntakeData
  matters,           \* MockBackend.matters
  triage,            \* TriageAssistant: input, isAnalyzing
  pendingTriage,     \* generateContent calls awaiting their response
  pendingReads,      \* FileReader.readAsDataURL calls awaiting onload
  contactForm,       \* ContactForm: confirmEmail, errors, touched
  letter,            \* EngagementLetter: agreed, signature
  auth,              \* AuthScreen: step, email, password, mfaCode, error, loading
  authTimer,         \* the setTimeout the mounted AuthScreen is waiting for
  staleTimers,       \* login setTimeouts of AuthScreens since unmounted
  intakeHistory      \* history: what happened since the most recent startIntake

vars == << view, intakeStep, user, aiRecommendation, showFullCatalog, navTarget,
           intakeData, matters, triage, pendingTriage, pendingReads, contactForm,
           letter, auth, authTimer, staleTimers, intakeHistory >>

appVars == << view, intakeStep, user, aiRecommendation, showFullCatalog,
              navTarget, intakeData >>

STEPS == << "Jurisdiction", "Triage", "Service", "Details", "Contact", "Review", "Pay" >>

\* STEPS[k].id for the step labelled so (ids are 0-based)
StepJurisdiction == 0
StepTriage == 1
StepService == 2
StepDetails == 3
StepContact == 4
StepReview == 5
StepPay == 6

-----------------------------------------------------------------------------
(* Bounds of the exploration                                               *)

MaxPendingTriage == 1   \* triage requests in flight at once
MaxPendingReads == 1    \* file reads in flight at once
MaxStaleTimers == 1     \* login timers outliving their AuthScreen
MaxMatters == 1         \* matters the backend stores

-----------------------------------------------------------------------------
(* Component-local state: mounting and unmounting                          *)

\* {intakeStep === 1 && <TriageAssistant .../>} inside {view === 'intake' && ...}
TriageMounted(v, st) == v = "intake" /\ st = StepTriage
ContactMounted(v, st) == v = "intake" /\ st = StepContact
LetterMounted(v, st) == v = "intake" /\ st = StepReview
AuthMounted(v) == v = "auth"

\* useState(currentInput || ''), useState(false)
TriageInit(description) ==
  [ input |-> IF TruthyOpt(description) THEN Get(description) ELSE << >>,
    isAnalyzing |-> FALSE ]

NoFlags == [ email |-> FALSE, confirmEmail |-> FALSE, phone |-> FALSE ]

\* useState(contact.email || ''), useState({}), useState({}); an entry of
\* errors is TRUE when its message is a non-empty string
ContactInit(email) ==
  [ confirmEmail |-> email, errors |-> NoFlags, touched |-> NoFlags ]

\* useState(false), useState('')
LetterInit == [ agreed |-> FALSE, signature |-> << >> ]

\* The useState initial values of AuthScreen.  passwordAccepted is history:
\* a correct password was submitted to this AuthScreen.
AuthInit ==
  [ step |-> "email", email |-> << >>, password |-> << >>, mfaCode |-> << >>,
    error |-> "", loading |-> FALSE, passwordAccepted |-> FALSE ]

\* The local state after a handler ran: tr, cf, lt, au and tm are what the
\* handler left in the components that stay mounted; a component the step
\* mounts starts from its initial state, one that is not rendered has none
\* (written as its initial state).  A login timer of an AuthScreen that the
\* step unmounts keeps running.
Settle(tr, cf, lt, au, tm, st) ==
  /\ triage' = IF TriageMounted(view', intakeStep') /\ TriageMounted(view, intakeStep)
               THEN tr
               ELSE IF TriageMounted(view', intakeStep')
               THEN TriageInit(intakeData'.details.description)
               ELSE TriageInit(None)
  /\ contactForm' = IF ContactMounted(view', intakeStep') /\ ContactMounted(view, intakeStep)
                    THEN cf
                    ELSE IF ContactMounted(view', intakeStep')
                    THEN ContactInit(intakeData'.contact.email)
                    ELSE ContactInit(<< >>)
  /\ letter' = IF LetterMounted(view', intakeStep') /\ LetterMounted(view, intakeStep)
               THEN lt
               ELSE LetterInit
  /\ auth' = IF AuthMounted(view') /\ AuthMounted(view) THEN au ELSE AuthInit
  /\ authTimer' = IF AuthMounted(view') /\ AuthMounted(view) THEN tm ELSE None
  /\ staleTimers' = IF AuthMounted(view) /\ ~AuthMounted(view') /\ IsSome(tm)
                       /\ Get(tm).kind \in { "mfa", "magic" }
                    THEN Append(st, Get(tm))
                    ELSE st

\* A handler that touches no component-local state
SettleApp == Settle(triage, contactForm, letter, auth, authTimer, staleTimers)

\* NavConfirmModal is rendered while navTarget !== null, as a fixed overlay
\* over the whole page: no other control can be clicked until it is closed.
ModalOpen == navTarget # None

\* History of an intake, beside jurisdictionSelected: due is the first step
\* not yet shown again since the user last confirmed going back in
\* NavConfirmModal (the steps from due on are still to be passed, in order);
\* NoDue when there is none, or the user has not gone back
NoDue == Len(STEPS)

\* The history once the wizard shows step st
ArrivedAt(h, st) == [ h EXCEPT !.due = IF @ = st THEN st + 1 ELSE @ ]

-----------------------------------------------------------------------------
(* Initial state: App as constructed, an empty backend                     *)

Init ==
  /\ view = "home"
  /\ intakeStep = 0
  /\ user = None
  /\ aiRecommendation = None
  /\ showFullCatalog = FALSE
  /\ navTarget = None
  /\ intakeData = FreshIntakeData
  /\ matters = << >>
  /\ triage = TriageInit(None)
  /\ pendingTriage = << >>
  /\ pendingReads = 0
  /\ contactForm = ContactInit(<< >>)
  /\ letter = LetterInit
  /\ auth = AuthInit
  /\ authTimer = None
  /\ staleTimers = << >>
  /\ intakeHistory = [ jurisdictionSelected |-> FALSE, due |-> NoDue ]

-----------------------------------------------------------------------------
(* App: starting the intake, the jurisdiction gate                         *)

\* A startIntake that would keep the contact of the previous intake
StartIntake_KeepingContact ==
  /\ view = "home"
  /\ ~ModalOpen
  /\ view' = "intake"
  /\ intakeStep' = 0
  /\ aiRecommendation' = None
  /\ showFullCatalog' = FALSE
  /\ intakeData' = [ FreshIntakeData EXCEPT !.contact = intakeData.contact ]
  /\ intakeHistory' = [ jurisdictionSelected |-> FALSE, due |-> NoDue ]
  /\ UNCHANGED << user, navTarget, matters, pendingTriage, pendingReads >>
  /\ SettleApp

\* Hero "Start Intake" -> startIntake
StartIntake ==
  /\ view = "home"
  /\ ~ModalOpen
  /\ view' = "intake"
  /\ intakeStep' = 0
  /\ aiRecommendation' = None
  /\ showFullCatalog' = FALSE
  /\ intakeData' = FreshIntakeData
  /\ intakeHistory' = [ jurisdictionSelected |-> FALSE, due |-> NoDue ]
  /\ UNCHANGED << user, navTarget, matters, pendingTriage, pendingReads >>
  /\ SettleApp

\* The buttons of JurisdictionGate
Jurisdictions == { "TX", "FL", "CO", "OTHER" }

\* A handleJurisdiction that would start over on "Other State": it clears
\* the form before showing the not-eligible screen
HandleJurisdiction_Clearing(j) ==
  /\ view = "intake" /\ intakeStep = StepJurisdiction
  /\ ~ModalOpen
  /\ IF j = "OTHER"
     THEN /\ view' = "not-eligible"
          /\ intakeData' = FreshIntakeData
          /\ UNCHANGED << intakeStep, aiRecommendation, intakeHistory >>
     ELSE /\ intakeData' = [ intakeData EXCEPT !.jurisdiction = j,
                                               !.serviceId = NoService ]
          /\ intakeStep' = 1
          /\ aiRecommendation' = None
          /\ intakeHistory' = ArrivedAt([ intakeHistory EXCEPT !.jurisdictionSelected = TRUE ],
                                      StepTriage)
          /\ UNCHANGED view
  /\ UNCHANGED << user, showFullCatalog, navTarget, matters, pendingTriage, pendingReads >>
  /\ SettleApp

\* JurisdictionGate onSelect -> handleJurisdiction(j)
HandleJurisdiction(j) ==
  /\ view = "intake" /\ intakeStep = StepJurisdiction
  /\ ~ModalOpen
  /\ IF j = "OTHER"
     THEN /\ view' = "not-eligible"
          /\ UNCHANGED << intakeStep, aiRecommendation, intakeData, intakeHistory >>
     ELSE /\ intakeData' = [ intakeData EXCEPT !.jurisdiction = j,
                                               !.serviceId = NoService ]
          /\ intakeStep' = 1
          /\ aiRecommendation' = None
          /\ intakeHistory' = ArrivedAt([ intakeHistory EXCEPT !.jurisdictionSelected = TRUE ],
                                      StepTriage)
          /\ UNCHANGED view
  /\ UNCHANGED << user, showFullCatalog, navTarget, matters, pendingTriage, pendingReads >>
  /\ SettleApp

-----------------------------------------------------------------------------
(* TriageAssistant and the AI classification call                          *)

\* What the user may type into the issue description
TriageInputs == { << >>, << " " >>, << "h", "i" >> }

\* textarea onChange -> setInput
TriageSetInput(s) ==
  /\ TriageMounted(view, intakeStep)
  /\ ~ModalOpen
  /\ s # triage.input
  /\ UNCHANGED << appVars, matters, pendingTriage, pendingReads, intakeHistory >>
  /\ Settle([ triage EXCEPT !.input = s ], contactForm, letter, auth, authTimer, staleTimers)

\* "Analyze & Recommend" -> handleAnalyze, up to the await: the request
\* carries the input it was made with
HandleAnalyze ==
  /\ TriageMounted(view, intakeStep)
  /\ ~ModalOpen
  /\ Truthy(Trim(triage.input))
  /\ ~triage.isAnalyzing
  /\ Len(pendingTriage) < MaxPendingTriage
  /\ pendingTriage' = Append(pendingTriage, triage.input)
  /\ UNCHANGED << appVars, matters, pendingReads, intakeHistory >>
  /\ Settle([ triage EXCEPT !.isAnalyzing = TRUE ], contactForm, letter, auth,
            authTimer, staleTimers)

\* A handleTriageResult that would open the full catalog only for a
\* recommendation of low confidence, not for a missing one
HandleTriageResult_CatalogOnLowOnly(recommendation, description) ==
  /\ intakeData' =
       [ intakeData EXCEPT
           !.details.description = Some(description),
           !.triageReasoning = IF IsSome(recommendation)
                               THEN Some(Get(recommendation).reasoning)
                               ELSE @ ]
  /\ aiRecommendation' = recommendation
  /\ showFullCatalog' = (IsSome(recommendation) /\ Get(recommendation).confidence = "low")
  /\ intakeStep' = 2

\* A handleTriageResult that would select the recommended service itself
HandleTriageResult_Selecting(recommendation, description) ==
  /\ intakeData' =
       [ intakeData EXCEPT
           !.details.description = Some(description),
           !.serviceId = IF IsSome(recommendation)
                         THEN Get(recommendation).serviceId
                         ELSE @,
           !.triageReasoning = IF IsSome(recommendation)
                               THEN Some(Get(recommendation).reasoning)
                               ELSE @ ]
  /\ aiRecommendation' = recommendation
  /\ showFullCatalog' = IF IsSome(recommendation)
                        THEN Get(recommendation).confidence = "low"
                        ELSE TRUE
  /\ intakeStep' = 2

\* handleTriageResult(recommendation, description)
HandleTriageResult(recommendation, description) ==
  /\ intakeData' =
       [ intakeData EXCEPT
           !.details.description = Some(description),
           !.triageReasoning = IF IsSome(recommendation)
                               THEN Some(Get(recommendation).reasoning)
                               ELSE @ ]
  /\ aiRecommendation' = recommendation
  /\ showFullCatalog' = IF IsSome(recommendation)
                        THEN Get(recommendation).confidence = "low"
                        ELSE TRUE
  /\ intakeStep' = 2

\* The serviceId strings the model may answer with: catalog ids and one
\* that is not in SERVICES
AiServiceIds == { "demand_letter", "business_formation" }
AiConfidences == { "high", "low" }
AiReasoning == << "r" >>

\* How the generateContent call ends: a parsed object with a serviceId, a
\* parsed object without one, a response JSON.parse rejects, a rejected call
AiOutcomes ==
  { [ kind |-> "ok", serviceId |-> sid, confidence |-> c ] :
      sid \in AiServiceIds, c \in AiConfidences }
  \cup { [ kind |-> k, serviceId |-> NoService, confidence |-> "high" ] :
           k \in { "no_service_id", "unparsable", "api_error" } }

\* What handleAnalyze passes to onResult for an outcome
RecommendationOf(outcome) ==
  IF outcome.kind = "ok"
  THEN Some([ serviceId  |-> outcome.serviceId,
              confidence |-> outcome.confidence,
              reasoning  |-> AiReasoning ])
  ELSE None

\* handleAnalyze after the await: request k gets its answer.  onResult is
\* the handleTriageResult of the App, which stays mounted.
TriageResponse(k, outcome) ==
  /\ k \in 1..Len(pendingTriage)
  /\ pendingTriage' = SubSeq(pendingTriage, 1, k - 1)
                      \o SubSeq(pendingTriage, k + 1, Len(pendingTriage))
  /\ HandleTriageResult(RecommendationOf(outcome), pendingTriage[k])
  /\ UNCHANGED << view, user, navTarget, matters, pendingReads >>
  /\ intakeHistory' = ArrivedAt(intakeHistory, intakeStep')
  /\ SettleApp

\* "Choose services manually" -> onSkip
TriageSkip ==
  /\ TriageMounted(view, intakeStep)
  /\ ~ModalOpen
  /\ aiRecommendation' = None
  /\ showFullCatalog' = TRUE
  /\ intakeStep' = 2
  /\ UNCHANGED << view, user, navTarget, intakeData, matters, pendingTriage,
                  pendingReads >>
  /\ intakeHistory' = ArrivedAt(intakeHistory, intakeStep')
  /\ SettleApp

-----------------------------------------------------------------------------
(* Service step: ServiceRecommendation or ServiceCatalog                   *)

\* intakeStep === 2 && !showFullCatalog && aiRecommendation
RecommendationBranch ==
  view = "intake" /\ intakeStep = StepService /\ ~showFullCatalog /\ IsSome(aiRecommendation)

\* A ServiceRecommendation that would render whatever serviceId it is given
RecommendationShown_AnyService == RecommendationBranch

\* ServiceRecommendation returns null unless its serviceId is in SERVICES
RecommendationShown ==
  RecommendationBranch /\ IsSome(FindService(Get(aiRecommendation).serviceId))

CatalogShown == view = "intake" /\ intakeStep = StepService /\ ~RecommendationBranch

\* "Continue with ..." -> handleRecommendationConfirm
HandleRecommendationConfirm ==
  /\ RecommendationShown
  /\ ~ModalOpen
  /\ intakeData' = [ intakeData EXCEPT !.serviceId = Get(aiRecommendation).serviceId ]
  /\ intakeStep' = 3
  /\ UNCHANGED << view, user, aiRecommendation, showFullCatalog, navTarget, matters,
                  pendingTriage, pendingReads >>
  /\ intakeHistory' = ArrivedAt(intakeHistory, intakeStep')
  /\ SettleApp

\* "No, show me all services" -> onShowCatalog
ShowCatalog ==
  /\ RecommendationShown
  /\ ~ModalOpen
  /\ showFullCatalog' = TRUE
  /\ UNCHANGED << view, intakeStep, user, aiRecommendation, navTarget, intakeData,
                  matters, pendingTriage, pendingReads, intakeHistory >>
  /\ SettleApp

\* The catalog entries the exploration selects: the first NumServiceChoices
NumServiceChoices == 2
ServiceChoices == { SERVICES[i].id : i \in 1..NumServiceChoices }

\* A catalog entry -> handleServiceSelect(sid)
HandleServiceSelect(sid) ==
  /\ CatalogShown
  /\ ~ModalOpen
  /\ intakeData' =
       IF sid # intakeData.serviceId
       THEN [ intakeData EXCEPT
                !.serviceId = sid,
                !.details = [ EmptyDetails EXCEPT
                                !.description = intakeData.details.description ],
                !.documents = << >>,
                !.signature = None ]
       ELSE [ intakeData EXCEPT !.serviceId = sid ]
  /\ intakeStep' = 3
  /\ UNCHANGED << view, user, aiRecommendation, showFullCatalog, navTarget, matters,
                  pendingTriage, pendingReads >>
  /\ intakeHistory' = ArrivedAt(intakeHistory, intakeStep')
  /\ SettleApp

-----------------------------------------------------------------------------
(* Details step: DetailsForm                                               *)

DetailsShown == view = "intake" /\ intakeStep = StepDetails

\* The services whose form block has the opposing-party input
OpposingPartyServices ==
  { "demand_letter", "affidavit", "motion", "filing_lawsuit", "filing_answer",
    "deposition_questionnaire", "attorney_review" }

\* Every form block renders the upload control
UploadServices == { "contract_review" } \cup OpposingPartyServices

\* What the user may enter
DescriptionInputs == { << >>, << "h", "i" >> }
PageCountInputs == { PcNumber(12) }
Str_Evil_Corp == << "E","v","i","l"," ","C","o","r","p","." >>
Str_Acme == << "A","c","m","e" >>
OpposingPartyInputs == { Str_Evil_Corp }

\* onChange(field, value) -> updateIntake, the details branch
DetailsChange ==
  /\ DetailsShown
  /\ ~ModalOpen
  /\ \/ \E s \in DescriptionInputs :
          intakeData' = [ intakeData EXCEPT !.details.description = Some(s) ]
     \/ /\ intakeData.serviceId = "contract_review"
        /\ \E pc \in PageCountInputs :
             intakeData' = [ intakeData EXCEPT !.details.pageCount = pc ]
     \/ /\ intakeData.serviceId \in OpposingPartyServices
        /\ \E s \in OpposingPartyInputs :
             intakeData' = [ intakeData EXCEPT !.details.opposingParty = Some(s) ]
  /\ intakeData' # intakeData
  /\ UNCHANGED << view, intakeStep, user, aiRecommendation, showFullCatalog, navTarget,
                  matters, pendingTriage, pendingReads, intakeHistory >>
  /\ SettleApp

\* The file input -> handleFileUpload: starts reader.readAsDataURL(file).
\* The input is rendered only while documents is empty.
HandleFileUpload ==
  /\ DetailsShown
  /\ ~ModalOpen
  /\ intakeData.serviceId \in UploadServices
  /\ intakeData.documents = << >>
  /\ pendingReads < MaxPendingReads
  /\ pendingReads' = pendingReads + 1
  /\ UNCHANGED << appVars, matters, pendingTriage, intakeHistory >>
  /\ SettleApp

\* reader.onload: onChange('documents', [...currentDocs, doc]), where
\* currentDocs is the (empty) documents of the render that showed the input
FileReaderLoad ==
  /\ pendingReads > 0
  /\ pendingReads' = pendingReads - 1
  /\ intakeData' = [ intakeData EXCEPT !.documents = << "doc" >> ]
  /\ UNCHANGED << view, intakeStep, user, aiRecommendation, showFullCatalog, navTarget,
                  matters, pendingTriage, intakeHistory >>
  /\ SettleApp

\* "Remove and upload different file" -> onChange('documents', [])
RemoveDocuments ==
  /\ DetailsShown
  /\ ~ModalOpen
  /\ intakeData.serviceId \in UploadServices
  /\ intakeData.documents # << >>
  /\ intakeData' = [ intakeData EXCEPT !.documents = << >> ]
  /\ UNCHANGED << view, intakeStep, user, aiRecommendation, showFullCatalog, navTarget,
                  matters, pendingTriage, pendingReads, intakeHistory >>
  /\ SettleApp

\* "Continue" (disabled={!data.description}) -> setIntakeStep(4)
\* A Continue button that would stay enabled for an empty description
DetailsNext_AlwaysEnabled ==
  /\ DetailsShown
  /\ ~ModalOpen
  /\ intakeStep' = 4
  /\ UNCHANGED << view, user, aiRecommendation, showFullCatalog, navTarget, intakeData,
                  matters, pendingTriage, pendingReads >>
  /\ intakeHistory' = ArrivedAt(intakeHistory, intakeStep')
  /\ SettleApp

DetailsNext ==
  /\ DetailsShown
  /\ ~ModalOpen
  /\ TruthyOpt(intakeData.details.description)
  /\ intakeStep' = 4
  /\ UNCHANGED << view, user, aiRecommendation, showFullCatalog, navTarget, intakeData,
                  matters, pendingTriage, pendingReads >>
  /\ intakeHistory' = ArrivedAt(intakeHistory, intakeStep')
  /\ SettleApp

-----------------------------------------------------------------------------
(* Contact step: ContactForm                                               *)

ContactShown == ContactMounted(view, intakeStep)

Str_Al == << "A", "l" >>
Str_Bo == << "B", "o" >>
Str_email == << "a", "@", "b", ".", "c" >>
Str_email_bad == << "a", "@", "b" >>
Str_phone == << "5","5","5","1","2","3","4","5","6","7" >>
Str_phone_short == << "5","5","5","1" >>

NameInputs == { << >>, Str_Al, Str_Bo }
EmailInputs == { Str_email }
PhoneInputs == { Str_phone }

\* An isComplete that would rely on the error messages alone
IsComplete_ErrorsOnly(contact, cf) ==
  /\ Truthy(contact.name)
  /\ Truthy(contact.email)
  /\ Truthy(cf.confirmEmail)
  /\ Truthy(contact.phone)
  /\ ~cf.errors.email
  /\ ~cf.errors.confirmEmail
  /\ ~cf.errors.phone

\* ContactForm.isComplete
IsComplete(contact, cf) ==
  /\ Truthy(contact.name)
  /\ Truthy(contact.email)
  /\ Truthy(cf.confirmEmail)
  /\ Truthy(contact.phone)
  /\ ~cf.errors.email
  /\ ~cf.errors.confirmEmail
  /\ ~cf.errors.phone
  /\ ValidateEmail(contact.email)
  /\ cf.confirmEmail = contact.email
  /\ ValidatePhone(contact.phone)

\* Full Legal Name onChange -> onChange('name', value)
ContactSetName(s) ==
  /\ ContactShown
  /\ ~ModalOpen
  /\ s # intakeData.contact.name
  /\ intakeData' = [ intakeData EXCEPT !.contact.name = s ]
  /\ UNCHANGED << view, intakeStep, user, aiRecommendation, showFullCatalog, navTarget,
                  matters, pendingTriage, pendingReads, intakeHistory >>
  /\ SettleApp

\* handleEmailChange
HandleEmailChange(val) ==
  /\ ContactShown
  /\ ~ModalOpen
  /\ val # intakeData.contact.email
  /\ intakeData' = [ intakeData EXCEPT !.contact.email = val ]
  /\ UNCHANGED << view, intakeStep, user, aiRecommendation, showFullCatalog, navTarget,
                  matters, pendingTriage, pendingReads, intakeHistory >>
  /\ LET e1 == IF Truthy(contactForm.confirmEmail)
               THEN [ contactForm.errors EXCEPT
                        !.confirmEmail = (val # contactForm.confirmEmail) ]
               ELSE contactForm.errors
         e2 == IF contactForm.touched.email
               THEN [ e1 EXCEPT !.email = ~ValidateEmail(val) ]
               ELSE e1
     IN  Settle(triage, [ contactForm EXCEPT !.errors = e2 ], letter, auth,
                authTimer, staleTimers)

\* handleConfirmEmailChange
HandleConfirmEmailChange(val) ==
  /\ ContactShown
  /\ ~ModalOpen
  /\ val # contactForm.confirmEmail
  /\ UNCHANGED << appVars, matters, pendingTriage, pendingReads, intakeHistory >>
  /\ LET e1 == IF contactForm.touched.confirmEmail \/ Len(val) > 0
               THEN [ contactForm.errors EXCEPT
                        !.confirmEmail = (val # intakeData.contact.email) ]
               ELSE contactForm.errors
     IN  Settle(triage, [ contactForm EXCEPT !.confirmEmail = val, !.errors = e1 ],
                letter, auth, authTimer, staleTimers)

\* handlePhoneChange
HandlePhoneChange(raw) ==
  /\ ContactShown
  /\ ~ModalOpen
  /\ FormatPhoneNumber(raw) # intakeData.contact.phone
  /\ intakeData' = [ intakeData EXCEPT !.contact.phone = FormatPhoneNumber(raw) ]
  /\ UNCHANGED << view, intakeStep, user, aiRecommendation, showFullCatalog, navTarget,
                  matters, pendingTriage, pendingReads, intakeHistory >>
  /\ LET e1 == IF contactForm.touched.phone
               THEN [ contactForm.errors EXCEPT
                        !.phone = ~ValidatePhone(FormatPhoneNumber(raw)) ]
               ELSE contactForm.errors
     IN  Settle(triage, [ contactForm EXCEPT !.errors = e1 ], letter, auth,
                authTimer, staleTimers)

ContactFields == { "email", "confirmEmail", "phone" }

\* onBlur -> handleBlur(field)
HandleBlur(field) ==
  /\ ContactShown
  /\ ~ModalOpen
  /\ UNCHANGED << appVars, matters, pendingTriage, pendingReads, intakeHistory >>
  /\ LET t1 == [ contactForm.touched EXCEPT ![field] = TRUE ]
         e1 == CASE field = "email" ->
                      [ contactForm.errors EXCEPT
                          !.email = ~ValidateEmail(intakeData.contact.email) ]
                 [] field = "confirmEmail" ->
                      [ contactForm.errors EXCEPT
                          !.confirmEmail =
                             (contactForm.confirmEmail # intakeData.contact.email) ]
                 [] field = "phone" ->
                      [ contactForm.errors EXCEPT
                          !.phone = ~ValidatePhone(intakeData.contact.phone) ]
     IN  Settle(triage, [ contactForm EXCEPT !.touched = t1, !.errors = e1 ], letter,
                auth, authTimer, staleTimers)

\* "Review Agreement" (disabled={!isComplete}) -> setIntakeStep(5)
ContactNext ==
  /\ ContactShown
  /\ ~ModalOpen
  /\ IsComplete(intakeData.contact, contactForm)
  /\ intakeStep' = 5
  /\ UNCHANGED << view, user, aiRecommendation, showFullCatalog, navTarget, intakeData,
                  matters, pendingTriage, pendingReads >>
  /\ intakeHistory' = ArrivedAt(intakeHistory, intakeStep')
  /\ SettleApp

-----------------------------------------------------------------------------
(* Review step: EngagementLetter                                           *)

LetterShown == LetterMounted(view, intakeStep)

\* What the user may type as the digital signature
SignatureInputs == { << "a", "l", " " >>, Str_Bo }

\* The agreement checkbox -> setAgreed(e.target.checked)
LetterSetAgreed ==
  /\ LetterShown
  /\ ~ModalOpen
  /\ UNCHANGED << appVars, matters, pendingTriage, pendingReads, intakeHistory >>
  /\ Settle(triage, contactForm, [ letter EXCEPT !.agreed = ~letter.agreed ], auth,
            authTimer, staleTimers)

\* The signature input -> setSignature(e.target.value)
LetterSetSignature(s) ==
  /\ LetterShown
  /\ ~ModalOpen
  /\ s # letter.signature
  /\ UNCHANGED << appVars, matters, pendingTriage, pendingReads, intakeHistory >>
  /\ Settle(triage, contactForm, [ letter EXCEPT !.signature = s ], auth,
            authTimer, staleTimers)

\* A handleSignature that would move on to the Pay step without recording
\* the signature
HandleSignature_NotRecording ==
  /\ LetterShown
  /\ ~ModalOpen
  /\ CanSign(letter.agreed, letter.signature, intakeData)
  /\ intakeStep' = 6
  /\ UNCHANGED << view, user, aiRecommendation, showFullCatalog, navTarget, intakeData,
                  matters, pendingTriage, pendingReads >>
  /\ intakeHistory' = ArrivedAt(intakeHistory, intakeStep')
  /\ SettleApp

\* "Sign & Continue to Payment" (disabled={!canSign}) -> handleSignature
HandleSignature ==
  /\ LetterShown
  /\ ~ModalOpen
  /\ CanSign(letter.agreed, letter.signature, intakeData)
  /\ intakeData' = [ intakeData EXCEPT
                       !.signature = Some([ signedName |-> intakeData.contact.name,
                                            agreed     |-> TRUE ]) ]
  /\ intakeStep' = 6
  /\ UNCHANGED << view, user, aiRecommendation, showFullCatalog, navTarget, matters,
                  pendingTriage, pendingReads >>
  /\ intakeHistory' = ArrivedAt(intakeHistory, intakeStep')
  /\ SettleApp

\* Contact Information "Edit" -> onEdit: setIntakeStep(4)
LetterEdit ==
  /\ LetterShown
  /\ ~ModalOpen
  /\ intakeStep' = 4
  /\ UNCHANGED << view, user, aiRecommendation, showFullCatalog, navTarget, intakeData,
                  matters, pendingTriage, pendingReads >>
  /\ intakeHistory' = ArrivedAt(intakeHistory, intakeStep')
  /\ SettleApp

-----------------------------------------------------------------------------
(* Pay step: PaymentGateway                                                *)

PayShown == view = "intake" /\ intakeStep = StepPay

Urgencies == { "standard", "rush" }

\* The turnaround radio buttons -> setUrgency(u) -> updateIntake('urgency', u)
SetUrgency(u) ==
  /\ PayShown
  /\ ~ModalOpen
  /\ u # intakeData.urgency
  /\ intakeData' = [ intakeData EXCEPT !.urgency = u ]
  /\ UNCHANGED << view, intakeStep, user, aiRecommendation, showFullCatalog, navTarget,
                  matters, pendingTriage, pendingReads, intakeHistory >>
  /\ SettleApp

\* The total the "Authorize Payment" button hands to onCheckout
\* A total that would not follow the urgency selected at the Pay step
CheckoutTotal_IgnoringUrgency ==
  PriceBreakdown(intakeData.serviceId, intakeData, "standard").total

CheckoutTotal ==
  PriceBreakdown(intakeData.serviceId, intakeData, intakeData.urgency).total

\* "Authorize Payment" -> onCheckout(priceBreakdown.total) -> handleCheckout
HandleCheckout ==
  /\ PayShown
  /\ ~ModalOpen
  /\ Len(matters) < MaxMatters
  /\ matters' = Append(matters, NewMatter(intakeData, CheckoutTotal))
  /\ user' = Some([ id |-> "client-new", role |-> "client" ])
  /\ view' = "success"
  /\ UNCHANGED << intakeStep, aiRecommendation, showFullCatalog, navTarget, intakeData,
                  pendingTriage, pendingReads, intakeHistory >>
  /\ SettleApp

-----------------------------------------------------------------------------
(* The progress bar and NavConfirmModal                                    *)

\* A progress dot (disabled unless stepIdx < intakeStep) -> handleNavRequest
HandleNavRequest(stepIndex) ==
  /\ view = "intake"
  /\ ~ModalOpen
  /\ stepIndex \in 0..(Len(STEPS) - 1)
  /\ ~(stepIndex >= intakeStep)
  /\ navTarget' = Some(stepIndex)
  /\ UNCHANGED << view, intakeStep, user, aiRecommendation, showFullCatalog, intakeData,
                  matters, pendingTriage, pendingReads, intakeHistory >>
  /\ SettleApp

\* "Confirm & Go Back" -> handleNavConfirm
HandleNavConfirm ==
  /\ navTarget # None
  /\ LET target == Get(navTarget)
         d1 == IF target <= 1
               THEN [ intakeData EXCEPT !.serviceId = NoService ]
               ELSE intakeData
         d2 == IF target < 6 THEN [ d1 EXCEPT !.signature = None ] ELSE d1
     IN  /\ aiRecommendation' = IF target <= 1 THEN None ELSE aiRecommendation
         /\ showFullCatalog' = IF target <= 1 THEN FALSE ELSE showFullCatalog
         /\ intakeData' = d2
         /\ intakeStep' = target
  /\ navTarget' = None
  /\ intakeHistory' = [ intakeHistory EXCEPT !.due = Get(navTarget) + 1 ]
  /\ UNCHANGED << view, user, matters, pendingTriage, pendingReads >>
  /\ SettleApp

\* "Cancel" -> setNavTarget(null)
NavCancel ==
  /\ navTarget # None
  /\ navTarget' = None
  /\ UNCHANGED << view, intakeStep, user, aiRecommendation, showFullCatalog, intakeData,
                  matters, pendingTriage, pendingReads, intakeHistory >>
  /\ SettleApp

-----------------------------------------------------------------------------
(* Layout: navigation between views, logout                                *)

\* The views the header of Layout asks for: the logo and "Services" ask
\* for 'home'; "Dashboard" is shown to an admin, "My Portal" to any other
\* user, "Client Portal" and "Admin" to a visitor
HeaderTargets ==
  { "home" }
  \cup (IF user = None THEN { "portal", "admin" }
        ELSE IF Get(user).role = "admin" THEN { "admin" } ELSE { "portal" })

\* A handleViewChange without the route guard
HandleViewChange_Unguarded(newView) ==
  /\ newView \in HeaderTargets
  /\ ~ModalOpen
  /\ view' = newView
  /\ UNCHANGED << intakeStep, user, aiRecommendation, showFullCatalog, navTarget,
                  intakeData, matters, pendingTriage, pendingReads, intakeHistory >>
  /\ SettleApp

\* Layout setView -> handleViewChange(newView)
HandleViewChange(newView) ==
  /\ newView \in HeaderTargets
  /\ ~ModalOpen
  /\ view' = IF (newView = "portal" \/ newView = "admin") /\ user = None
             THEN "auth"
             ELSE newView
  /\ UNCHANGED << intakeStep, user, aiRecommendation, showFullCatalog, navTarget,
                  intakeData, matters, pendingTriage, pendingReads, intakeHistory >>
  /\ SettleApp

\* isAuthenticated={!!user && user.role === 'admin'}
IsAuthenticated == IsSome(user) /\ Get(user).role = "admin"

\* A matter list that the portal would show as well, to any logged-in user
MatterListShown_InPortalToo == view \in { "portal", "admin" } /\ user # None

\* view === 'admin' renders AdminDashboard, which returns null unless
\* isAuthenticated; no other component reads backend.getMatters()
MatterListShown == view = "admin" /\ IsAuthenticated

\* matters.filter(m => m.status === 'conflict_flagged').length
DashboardConflicts ==
  Cardinality({ k \in 1..Len(matters) : matters[k].status = "conflict_flagged" })

\* matters.filter(m => m.status === 'new').length
DashboardNew ==
  Cardinality({ k \in 1..Len(matters) : matters[k].status = "new" })

\* The decimal digits of a natural number
RECURSIVE Digits(_)
Digits(n) ==
  LET d == << "0", "1", "2", "3", "4", "5", "6", "7", "8", "9" >>[(n % 10) + 1]
  IN  IF n < 10 THEN << d >> ELSE Append(Digits(n \div 10), d)

\* Number.toLocaleString() of a natural number: groups of three digits
RECURSIVE ToLocaleString_Digits(_)
ToLocaleString_Digits(ds) ==
  IF Len(ds) <= 3 THEN ds
  ELSE ToLocaleString_Digits(SubSeq(ds, 1, Len(ds) - 3))
       \o << "," >> \o SubSeq(ds, Len(ds) - 2, Len(ds))

\* matters.reduce((acc, m) => acc + m.price, 0)
RECURSIVE ReducePrices(_, _)
ReducePrices(acc, ms) ==
  IF ms = << >> THEN acc ELSE ReducePrices(acc + Head(ms).price, Tail(ms))

\* ${matters.reduce(...).toLocaleString()}
DashboardRevenue == ToLocaleString_Digits(Digits(ReducePrices(0, matters)))

\* not-eligible "Back to Home" -> setView('home')
NotEligibleBack ==
  /\ view = "not-eligible"
  /\ ~ModalOpen
  /\ view' = "home"
  /\ UNCHANGED << intakeStep, user, aiRecommendation, showFullCatalog, navTarget,
                  intakeData, matters, pendingTriage, pendingReads, intakeHistory >>
  /\ SettleApp

\* SuccessPage "Go to Client Portal" -> setView('portal')
SuccessGoToPortal ==
  /\ view = "success"
  /\ ~ModalOpen
  /\ view' = "portal"
  /\ UNCHANGED << intakeStep, user, aiRecommendation, showFullCatalog, navTarget,
                  intakeData, matters, pendingTriage, pendingReads, intakeHistory >>
  /\ SettleApp

\* handleLogin(authenticatedUser)
HandleLogin(authenticatedUser) ==
  /\ user' = Some(authenticatedUser)
  /\ view' = IF authenticatedUser.role = "admin" THEN "admin" ELSE "portal"

\* "Sign Out" (shown while a user is logged in) -> handleLogout
HandleLogout ==
  /\ user # None
  /\ ~ModalOpen
  /\ user' = None
  /\ view' = "home"
  /\ UNCHANGED << intakeStep, aiRecommendation, showFullCatalog, navTarget, intakeData,
                  matters, pendingTriage, pendingReads, intakeHistory >>
  /\ SettleApp

-----------------------------------------------------------------------------
(* AuthScreen                                                              *)

AuthShown == AuthMounted(view)

Str_admin == << "a", "d", "m", "i", "n" >>
Str_legal123 == << "l", "e", "g", "a", "l", "1", "2", "3" >>
Str_123456 == << "1", "2", "3", "4", "5", "6" >>

\* What the user may type into the auth forms
AuthEmailInputs == { << "A","d","m","i","n","@","x" >>, << "c","@","x" >> }
PasswordInputs == { Str_legal123, << "l","e","g","a","l" >> }
MfaCodeInputs == { Str_123456, << "0","0","0","0","0","0" >> }

\* isAdmin = email.toLowerCase().includes('admin')
IsAdminEmail(email) == Includes(ToLowerCase(email), Str_admin)

\* The closure of a setTimeout callback of AuthScreen: which handler set it
\* and the values it captured (passwords is the history of its AuthScreen)
AuthTimerOf(kind, a) ==
  [ kind |-> kind,
    isAdmin |-> IsAdminEmail(a.email),
    text |-> CASE kind = "password" -> a.password
               [] kind = "mfa" -> a.mfaCode
               [] OTHER -> << >>,
    passwordAccepted |-> a.passwordAccepted ]

AuthTyping(a) ==
  /\ AuthShown
  /\ ~ModalOpen
  /\ a # auth
  /\ UNCHANGED << appVars, matters, pendingTriage, pendingReads, intakeHistory >>
  /\ Settle(triage, contactForm, letter, a, authTimer, staleTimers)

\* The email input onChange -> setEmail
AuthSetEmail(e) == auth.step = "email" /\ AuthTyping([ auth EXCEPT !.email = e ])

\* The password input onChange -> setPassword
AuthSetPassword(pw) == auth.step = "password" /\ AuthTyping([ auth EXCEPT !.password = pw ])

\* The MFA input onChange -> setMfaCode
AuthSetMfaCode(c) == auth.step = "mfa" /\ AuthTyping([ auth EXCEPT !.mfaCode = c ])

\* A submit handler up to its setTimeout: a is the local state it leaves
AuthSubmit(kind, a) ==
  /\ AuthShown
  /\ ~ModalOpen
  /\ ~auth.loading
  /\ UNCHANGED << appVars, matters, pendingTriage, pendingReads, intakeHistory >>
  /\ Settle(triage, contactForm, letter, [ a EXCEPT !.loading = TRUE ],
            Some(AuthTimerOf(kind, auth)), staleTimers)

\* handleEmailSubmit
HandleEmailSubmit ==
  /\ auth.step = "email"
  /\ Truthy(auth.email)
  /\ AuthSubmit("email", [ auth EXCEPT !.error = "" ])

\* handlePasswordSubmit (passwordAccepted records that 'legal123' was sent)
HandlePasswordSubmit ==
  /\ auth.step = "password"
  /\ Truthy(auth.password)
  /\ AuthSubmit("password",
                [ auth EXCEPT !.passwordAccepted = @ \/ auth.password = Str_legal123 ])

\* handleMfaSubmit
HandleMfaSubmit ==
  /\ auth.step = "mfa"
  /\ Truthy(auth.mfaCode)
  /\ Len(staleTimers) < MaxStaleTimers
  /\ AuthSubmit("mfa", auth)

\* handleMagicLinkSimulate
HandleMagicLinkSimulate ==
  /\ auth.step = "magic_link"
  /\ Len(staleTimers) < MaxStaleTimers
  /\ AuthSubmit("magic", auth)

AdminProfile == [ id |-> "admin-1", role |-> "admin" ]
MagicLinkProfile == [ id |-> "client-N", role |-> "client" ]

\* A password check that would accept every password
PasswordOk_Any(text) == TRUE

\* password === 'legal123'
PasswordOk(text) == text = Str_legal123

\* mfaCode === '123456'
MfaCodeOk(text) == text = Str_123456

\* Whether the callback of timer t calls onLogin
TimerLogsIn(t) ==
  \/ t.kind = "magic"
  \/ t.kind = "mfa" /\ MfaCodeOk(t.text)

TimerProfile(t) == IF t.kind = "mfa" THEN AdminProfile ELSE MagicLinkProfile

\* The setTimeout callback of the mounted AuthScreen
AuthTimerFire ==
  /\ AuthShown
  /\ IsSome(authTimer)
  /\ LET t == Get(authTimer)
         a0 == [ auth EXCEPT !.loading = FALSE ]
     IN  IF TimerLogsIn(t)
         THEN /\ HandleLogin(TimerProfile(t))
              /\ UNCHANGED << intakeStep, aiRecommendation, showFullCatalog, navTarget,
                              intakeData, matters, pendingTriage, pendingReads,
                              intakeHistory >>
              /\ Settle(triage, contactForm, letter, a0, None, staleTimers)
         ELSE /\ UNCHANGED << appVars, matters, pendingTriage, pendingReads,
                              intakeHistory >>
              /\ Settle(triage, contactForm, letter,
                        CASE t.kind = "email" ->
                               [ a0 EXCEPT !.step = IF t.isAdmin THEN "password"
                                                    ELSE "magic_link" ]
                          [] t.kind = "password" ->
                               IF PasswordOk(t.text)
                               THEN [ a0 EXCEPT !.step = "mfa" ]
                               ELSE [ a0 EXCEPT !.error = "Invalid password." ]
                          [] OTHER -> [ a0 EXCEPT !.error = "Invalid MFA code." ],
                        None, staleTimers)

\* The setTimeout callback of an AuthScreen that is no longer mounted: its
\* setLoading, setStep and setError are ignored, its onLogin is not
StaleTimerFire(k) ==
  /\ k \in 1..Len(staleTimers)
  /\ LET t == staleTimers[k]
         rest == SubSeq(staleTimers, 1, k - 1) \o SubSeq(staleTimers, k + 1, Len(staleTimers))
     IN  /\ IF TimerLogsIn(t)
            THEN HandleLogin(TimerProfile(t))
            ELSE UNCHANGED << view, user >>
         /\ UNCHANGED << intakeStep, aiRecommendation, showFullCatalog, navTarget,
                         intakeData, matters, pendingTriage, pendingReads, intakeHistory >>
         /\ Settle(triage, contactForm, letter, auth, authTimer, rest)

-----------------------------------------------------------------------------
(* The application.  The state space of the whole program is explored in   *)
(* five parts, each a specification over the same variables and actions:   *)
(*   Spec         the intake wizard, left and restarted at will, up to the *)
(*                Pay step;                                                *)
(*   SpecSession  one visitor going through the wizard to the checkout;    *)
(*   SpecForms    the Details and Contact forms with every kind of input;  *)
(*   SpecPay      the Pay step and the checkout, for every service, page   *)
(*                count, opposing party and urgency;                       *)
(*   SpecAuth     the header navigation, the auth screen and the logout.   *)

\* The handlers of the wizard, steps Jurisdiction to Pay
Wizard ==
  \/ \E j \in Jurisdictions : HandleJurisdiction(j)
  \/ \E s \in TriageInputs : TriageSetInput(s)
  \/ HandleAnalyze
  \/ \E k \in 1..MaxPendingTriage, o \in AiOutcomes : TriageResponse(k, o)
  \/ TriageSkip
  \/ HandleRecommendationConfirm
  \/ ShowCatalog
  \/ \E sid \in ServiceChoices : HandleServiceSelect(sid)
  \/ DetailsChange
  \/ DetailsNext
  \/ \E s \in NameInputs : ContactSetName(s)
  \/ \E s \in EmailInputs : HandleEmailChange(s)
  \/ \E s \in EmailInputs : HandleConfirmEmailChange(s)
  \/ \E s \in PhoneInputs : HandlePhoneChange(s)
  \/ ContactNext
  \/ LetterSetAgreed
  \/ \E s \in SignatureInputs : LetterSetSignature(s)
  \/ HandleSignature
  \/ LetterEdit
  \/ \E u \in Urgencies : SetUrgency(u)
  \/ \E i \in 0..(Len(STEPS) - 1) : HandleNavRequest(i)
  \/ HandleNavConfirm
  \/ NavCancel
  \/ NotEligibleBack

Next ==
  \/ StartIntake
  \/ Wizard
  \/ HandleViewChange("home")

Spec == Init /\ [][Next]_vars

NextSession ==
  \/ StartIntake
  \/ Wizard
  \/ HandleCheckout
  \/ SuccessGoToPortal

SpecSession == Init /\ [][NextSession]_vars

\* The App showing DetailsForm for the service sid, chosen from the catalog
\* after "Choose services manually"
AtDetails(sid) ==
  /\ view = "intake"
  /\ intakeStep = StepDetails
  /\ user = None
  /\ aiRecommendation = None
  /\ showFullCatalog = TRUE
  /\ navTarget = None
  /\ intakeData = [ FreshIntakeData EXCEPT !.serviceId = sid ]
  /\ matters = << >>
  /\ triage = TriageInit(None)
  /\ pendingTriage = << >>
  /\ pendingReads = 0
  /\ contactForm = ContactInit(<< >>)
  /\ letter = LetterInit
  /\ auth = AuthInit
  /\ authTimer = None
  /\ staleTimers = << >>
  /\ intakeHistory = [ jurisdictionSelected |-> TRUE, due |-> NoDue ]

InitForms == \E sid \in ServiceChoices : AtDetails(sid)

\* What the user may type into the contact form: valid, invalid and empty
FormNameInputs == { << >>, << " " >>, Str_Al }
FormEmailInputs == { << >>, Str_email, Str_email_bad, << "a", " ", "@", "b", ".", "c" >> }
FormPhoneInputs == { << >>, Str_phone, Str_phone_short }

NextForms ==
  \/ DetailsChange
  \/ HandleFileUpload
  \/ FileReaderLoad
  \/ RemoveDocuments
  \/ DetailsNext
  \/ \E s \in FormNameInputs : ContactSetName(s)
  \/ \E s \in FormEmailInputs : HandleEmailChange(s)
  \/ \E s \in FormEmailInputs : HandleConfirmEmailChange(s)
  \/ \E s \in FormPhoneInputs : HandlePhoneChange(s)
  \/ \E f \in ContactFields : HandleBlur(f)
  \/ ContactNext
  \/ LetterSetAgreed
  \/ \E sg \in { << " " >>, Str_Al } : LetterSetSignature(sg)
  \/ HandleSignature
  \/ LetterEdit
  \/ HandleNavRequest(StepDetails)
  \/ HandleNavConfirm
  \/ NavCancel

SpecForms == InitForms /\ [][NextForms]_vars

\* The form of a visitor who reached the Pay step: service sid, page count
\* pc, opposing party op, the contact filled in and the letter signed
Str_hi == << "h", "i" >>

PayData(sid, pc, op) ==
  [ FreshIntakeData EXCEPT
      !.serviceId = sid,
      !.details = [ description |-> Some(Str_hi), pageCount |-> pc, opposingParty |-> op ],
      !.contact = [ name |-> Str_Al, email |-> Str_email,
                    phone |-> FormatPhoneNumber(Str_phone) ],
      !.signature = Some([ signedName |-> Str_Al, agreed |-> TRUE ]) ]

\* The App showing PaymentGateway for that form (the visitor skipped the
\* triage and chose from the catalog)
AtPay(data) ==
  /\ view = "intake"
  /\ intakeStep = StepPay
  /\ user = None
  /\ aiRecommendation = None
  /\ showFullCatalog = TRUE
  /\ navTarget = None
  /\ intakeData = data
  /\ matters = << >>
  /\ triage = TriageInit(None)
  /\ pendingTriage = << >>
  /\ pendingReads = 0
  /\ contactForm = ContactInit(<< >>)
  /\ letter = LetterInit
  /\ auth = AuthInit
  /\ authTimer = None
  /\ staleTimers = << >>
  /\ intakeHistory = [ jurisdictionSelected |-> TRUE, due |-> NoDue ]

\* The page counts parseInt leaves in the form
PayPageCounts ==
  { PcUndefined, PcNaN, PcNumber(-3), PcNumber(0), PcNumber(10), PcNumber(11),
    PcNumber(25) }

\* The opposing parties typed into the form (None: the field left alone)
PayOpposingParties ==
  { None } \cup
  { Some(t) : t \in {
      Str_Evil_Corp,
      Str_Acme,
      Str_evil_corp,
      Str_bad_guy,
      Str_fraud_llc,
      << >>,
      << " " >>,
      << "E", "V", "I", "L", "-", "C", "O", "R", "P" >>,
      << "e", "v", "i", " ", "l", "c", "o", "r", "p" >>,
      << "T", "h", "e", " ", "E", "v", "i", "l", " ", "C", "o", "r", "p", " ", "I", "n", "c" >>,
      << "E", "v", "i", "l" >>,
      << "C", "o", "r", "p", " ", "E", "v", "i", "l" >>,
      << "E", "v", "1", "l", " ", "C", "o", "r", "p" >>,
      << "B", "a", "d", "_", "G", "u", "y", " ", "2" >>,
      << "B", "a", "d", " ", "G", "u" >>,
      << "F", "r", "a", "u", "d", ",", " ", "L", "L", "C" >>,
      << "F", "r", "a", "u", "d", " ", "L", "C" >> } }

\* The App showing EngagementLetter for that form, not yet signed
AtReview(data) ==
  /\ view = "intake"
  /\ intakeStep = StepReview
  /\ user = None
  /\ aiRecommendation = None
  /\ showFullCatalog = TRUE
  /\ navTarget = None
  /\ intakeData = [ data EXCEPT !.signature = None ]
  /\ matters = << >>
  /\ triage = TriageInit(None)
  /\ pendingTriage = << >>
  /\ pendingReads = 0
  /\ contactForm = ContactInit(<< >>)
  /\ letter = LetterInit
  /\ auth = AuthInit
  /\ authTimer = None
  /\ staleTimers = << >>
  /\ intakeHistory = [ jurisdictionSelected |-> TRUE, due |-> NoDue ]

InitPay ==
  \/ \E sid \in CatalogIds, pc \in PayPageCounts : AtPay(PayData(sid, pc, None))
  \/ \E sid \in CatalogIds, pc \in PayPageCounts : AtReview(PayData(sid, pc, None))
  \/ \E sid \in { "demand_letter", "filing_lawsuit" }, op \in PayOpposingParties :
       AtPay(PayData(sid, PcUndefined, op))

NextPay ==
  \/ LetterSetAgreed
  \/ \E sg \in SignatureInputs : LetterSetSignature(sg)
  \/ HandleSignature
  \/ \E u \in Urgencies : SetUrgency(u)
  \/ HandleCheckout
  \/ SuccessGoToPortal
  \/ \E v \in { "home", "portal", "admin" } : HandleViewChange(v)
  \/ HandleLogout

SpecPay == InitPay /\ [][NextPay]_vars

\* A visitor on the landing page, or one about to pay
InitAuth ==
  \/ Init
  \/ AtPay(PayData("demand_letter", PcUndefined, None))
  \/ AtPay(PayData("filing_lawsuit", PcUndefined, Some(Str_Evil_Corp)))

NextAuth ==
  \/ StartIntake
  \/ \E v \in { "home", "portal", "admin" } : HandleViewChange(v)
  \/ HandleCheckout
  \/ SuccessGoToPortal
  \/ HandleLogout
  \/ \E e \in AuthEmailInputs : AuthSetEmail(e)
  \/ \E pw \in PasswordInputs : AuthSetPassword(pw)
  \/ \E c \in MfaCodeInputs : AuthSetMfaCode(c)
  \/ HandleEmailSubmit
  \/ HandlePasswordSubmit
  \/ HandleMfaSubmit
  \/ HandleMagicLinkSimulate
  \/ AuthTimerFire
  \/ \E k \in 1..MaxStaleTimers : StaleTimerFire(k)

SpecAuth == InitAuth /\ [][NextAuth]_vars

-----------------------------------------------------------------------------
(* Properties                                                              *)

\* C1: every time the user selects "Other State" at the Jurisdiction step,
\* the view becomes 'not-eligible' and the wizard step and the intake data
\* are left unchanged.
C1_OtherStateNotEligible ==
  [][ HandleJurisdiction("OTHER")
        => /\ view' = "not-eligible"
           /\ intakeStep' = intakeStep
           /\ intakeData' = intakeData ]_vars

\* "Other State" was selected on a form that already held a description
\* (the user had gone back to the Jurisdiction step)
C1_Reached ==
  /\ view = "not-eligible"
  /\ intakeStep = StepJurisdiction
  /\ TruthyOpt(intakeData.details.description)


\* The base price the catalog lists for a service
C2_BasePrice(sid) ==
  LET listed == { SERVICES[i].basePrice : i \in { k \in 1..Len(SERVICES) : SERVICES[k].id = sid } }
  IN  IF listed = { } THEN 0 ELSE CHOOSE b \in listed : TRUE

\* The complexity adjustment: $10 for every page of a contract beyond the
\* tenth, $200 for filing a lawsuit
C2_Complexity(sid, pc) ==
  IF sid = "filing_lawsuit" THEN 200
  ELSE IF sid = "contract_review" /\ pc.kind = "number" /\ pc.n > 10 THEN 10 * (pc.n - 10)
  ELSE 0

\* total is base + complexity, times 1.5 (written as 2 * total = 3 * sum)
\* for a rush
C2_Agrees(data, total) ==
  LET sum == C2_BasePrice(data.serviceId)
             + C2_Complexity(data.serviceId, data.details.pageCount)
  IN  /\ data.urgency \in Urgencies
      /\ data.urgency = "standard" => total = sum
      /\ data.urgency = "rush" => 2 * total = 3 * sum

\* C2: at the Pay step, for every service, page count and urgency, the total
\* handed to checkout (and stored as the price of the matter) equals base
\* price + complexity adjustment when urgency is 'standard' and exactly 1.5
\* times that sum when urgency is 'rush'.
C2_TotalIsBasePlusComplexity ==
  /\ PayShown => C2_Agrees(intakeData, CheckoutTotal)
  /\ \A k \in 1..Len(matters) : C2_Agrees(matters[k].data, matters[k].price)

\* A rush review of a 25-page contract was paid: (250 + 150) * 1.5
C2_Reached ==
  \E k \in 1..Len(matters) :
    /\ matters[k].data.serviceId = "contract_review"
    /\ matters[k].data.details.pageCount = PcNumber(25)
    /\ matters[k].data.urgency = "rush"
    /\ matters[k].price = 600

\* A string in lower case without the characters outside a-z0-9
RECURSIVE C3_Normalized(_)
C3_Normalized(s) ==
  IF s = << >> THEN << >>
  ELSE LET c == Head(s)
           up == { i \in 1..Len(UpperChars) : UpperChars[i] = c }
           kept == IF up # { } THEN << LowerChars[CHOOSE i \in up : TRUE] >>
                   ELSE IF c \in Range(LowerChars) \cup DigitChars THEN << c >>
                   ELSE << >>
       IN  kept \o C3_Normalized(Tail(s))

\* t occurs in s
C3_Contains(s, t) ==
  \E a \in 0..Len(s) :
    /\ a + Len(t) <= Len(s)
    /\ \A i \in 1..Len(t) : s[a + i] = t[i]

\* The blacklist entries, normalized
C3_Blacklist ==
  { << "e","v","i","l","c","o","r","p" >>,
    << "b","a","d","g","u","y" >>,
    << "f","r","a","u","d","l","l","c" >> }

C3_Blacklisted(op) ==
  /\ IsSome(op)
  /\ \E b \in C3_Blacklist : C3_Contains(C3_Normalized(Get(op)), b)

\* C3: createMatter gives a matter status 'conflict_flagged' if and only if
\* the normalized opposing-party string contains a normalized blacklist
\* entry; in every other case, a missing or empty opposing party included,
\* the status is 'new'.
C3_ConflictFlagIffBlacklisted ==
  \A k \in 1..Len(matters) :
    LET m == matters[k]
    IN  /\ m.status \in { "conflict_flagged", "new" }
        /\ m.status = "conflict_flagged" <=> C3_Blacklisted(m.data.details.opposingParty)

\* A matter against "Evil Corp." was created and flagged
C3_Reached ==
  \E k \in 1..Len(matters) :
    /\ matters[k].data.details.opposingParty = Some(Str_Evil_Corp)
    /\ matters[k].status = "conflict_flagged"


\* s without its leading and trailing white space
C4_Stripped(s) ==
  LET inked == { i \in 1..Len(s) : s[i] \notin WhiteChars }
  IN  IF inked = { } THEN << >>
      ELSE SubSeq(s, CHOOSE i \in inked : \A j \in inked : i <= j,
                     CHOOSE i \in inked : \A j \in inked : i >= j)

\* The same character, letter case ignored
C4_SameChar(c, d) ==
  \/ c = d
  \/ \E i \in 1..Len(UpperChars) : { c, d } = { UpperChars[i], LowerChars[i] }

\* The same name, letter case and surrounding white space ignored
C4_SameName(typed, name) ==
  LET a == C4_Stripped(typed)
      b == C4_Stripped(name)
  IN  Len(a) = Len(b) /\ \A i \in 1..Len(a) : C4_SameChar(a[i], b[i])

\* C4: at the Sign step the signature is accepted (the wizard goes on to the
\* Pay step, a signature is recorded) only when the agreement checkbox is
\* checked and the typed name equals the contact name, letter case and
\* leading/trailing white space ignored.
C4_SignatureOnlyWhenMatching ==
  [][ ( /\ LetterShown
        /\ \/ intakeStep' = StepPay
           \/ IsSome(intakeData'.signature) /\ intakeData'.signature # intakeData.signature )
        => /\ letter.agreed
           /\ C4_SameName(letter.signature, intakeData.contact.name) ]_vars

\* The visitor named "Al" signed (the typed names are "al " and "Bo")
C4_Reached ==
  /\ PayShown
  /\ intakeData.contact.name = Str_Al
  /\ intakeData.signature = Some([ signedName |-> Str_Al, agreed |-> TRUE ])

\* The form is signed by its contact
C6_Signed(data) ==
  /\ IsSome(data.signature)
  /\ Get(data.signature).agreed = TRUE
  /\ Get(data.signature).signedName = data.contact.name

\* C6: whenever the wizard is at the Pay step, and whenever a matter is
\* created, intakeData.signature is defined with agreed = true and
\* signedName equal to the contact name, and the AGREEMENT_SIGNED audit
\* entry names the matter's contact.
C6_PaymentNeedsSignature ==
  /\ intakeStep = StepPay => C6_Signed(intakeData)
  /\ \A k \in 1..Len(matters) :
       /\ C6_Signed(matters[k].data)
       /\ \E i \in 1..Len(matters[k].auditLog) :
            matters[k].auditLog[i] =
              [ action |-> "AGREEMENT_SIGNED",
                details |-> Some(matters[k].data.contact.name) ]

\* A matter was created for the visitor "Bo", who signed it
C6_Reached ==
  \E k \in 1..Len(matters) :
    /\ matters[k].data.contact.name = Str_Bo
    /\ matters[k].data.signature = Some([ signedName |-> Str_Bo, agreed |-> TRUE ])


\* C5: a wizard step after Jurisdiction (Triage through Pay) is shown, and a
\* matter is created, only if the user selected TX, FL or CO at the
\* Jurisdiction step since the most recent Start Intake; no contact data is
\* entered in an intake before that selection.
C5_JurisdictionGate ==
  /\ []((view = "intake" /\ intakeStep >= StepTriage) => intakeHistory.jurisdictionSelected)
  /\ [](intakeData.contact # EmptyContact => intakeHistory.jurisdictionSelected)
  /\ [][ matters' # matters => intakeHistory.jurisdictionSelected ]_vars

\* The outcomes of the classification call that are failures
C7_Failures == { o \in AiOutcomes : o.kind \in { "api_error", "unparsable", "no_service_id" } }

\* C7: if the AI classification call fails in any way, the wizard moves to
\* the Service step showing the full manual catalog with no recommendation,
\* the description the request was made with is kept as the intake
\* description, and no service is selected by the failure.
C7_FailureFallsBackToCatalog ==
  [][ \A k \in 1..Len(pendingTriage), o \in C7_Failures :
        TriageResponse(k, o)
          => /\ intakeStep' = StepService
             /\ showFullCatalog' = TRUE
             /\ aiRecommendation' = None
             /\ view = "intake" => CatalogShown'
             /\ intakeData'.details.description = Some(pendingTriage[k])
             /\ intakeData'.serviceId = intakeData.serviceId ]_vars

\* The request made with "hi" has been answered (none is in flight): the
\* catalog is shown, without a recommendation and without a service selected
C7_Reached ==
  /\ CatalogShown
  /\ showFullCatalog
  /\ aiRecommendation = None
  /\ pendingTriage = << >>
  /\ intakeData.details.description = Some(Str_hi)
  /\ intakeData.serviceId = NoService
  /\ intakeData.details.opposingParty = None

\* C10: a triage response never sets the selected service;
\* intakeData.serviceId takes a non-null value only through the user's
\* confirmation on the recommendation screen or the user's selection in
\* the catalog.
C10_ServiceOnlyByUser ==
  [][ /\ \A k \in 1..Len(pendingTriage), o \in AiOutcomes :
           TriageResponse(k, o) => intakeData'.serviceId = intakeData.serviceId
      /\ (intakeData'.serviceId # intakeData.serviceId /\ intakeData'.serviceId # NoService)
           => \/ RecommendationShown
                 /\ intakeData'.serviceId = Get(aiRecommendation).serviceId
              \/ CatalogShown /\ intakeData'.serviceId \in CatalogIds ]_vars

\* A recommendation of high confidence is on the screen and no service is
\* selected
C10_Reached ==
  /\ RecommendationShown
  /\ Get(aiRecommendation).confidence = "high"
  /\ intakeData.serviceId = NoService


\* C8: a request to open the portal or the admin view while no user is
\* logged in shows the auth screen instead, and in every reachable state
\* the portal and admin views are displayed only while a user is logged in.
C8_RouteGuard ==
  /\ [](view \in { "portal", "admin" } => user # None)
  /\ [][ \A v \in { "portal", "admin" } :
           (HandleViewChange(v) /\ user = None) => view' = "auth" ]_vars

\* A visitor who paid, signed out and asked for the portal again is shown
\* the auth screen
C8_Reached ==
  /\ view = "auth"
  /\ user = None
  /\ matters # << >>

\* The login timers that are running
C9_Timers ==
  (IF IsSome(authTimer) THEN { Get(authTimer) } ELSE { })
  \cup { staleTimers[k] : k \in 1..Len(staleTimers) }

\* C9: a user profile with role 'admin' is set only after the correct
\* password ('legal123') was submitted and, after that, the correct MFA code
\* ('123456') was submitted in the same auth-screen session; no other
\* operation (magic-link login, checkout auto-login) produces the admin role.
C9_AdminOnlyAfterPasswordAndMfa ==
  [][ (user' # user /\ IsSome(user') /\ Get(user').role = "admin")
        => \E t \in C9_Timers :
             /\ t.kind = "mfa"
             /\ t.text = << "1","2","3","4","5","6" >>
             /\ t.passwordAccepted ]_vars

\* An administrator is logged in and sees the dashboard
C9_Reached ==
  /\ user = Some(AdminProfile)
  /\ view = "admin"


\* The eight services of the catalog
C11_Catalog ==
  { "contract_review", "demand_letter", "affidavit", "deposition_questionnaire",
    "motion", "filing_lawsuit", "filing_answer", "attorney_review" }

\* C11: every created matter has a serviceId that is one of the eight
\* services of the catalog, whatever serviceId the AI response contained;
\* at every wizard step from Details onward the selected service is such a
\* catalog service.
C11_ServiceFromCatalog ==
  /\ intakeStep >= StepDetails => intakeData.serviceId \in C11_Catalog
  /\ \A k \in 1..Len(matters) : matters[k].data.serviceId \in C11_Catalog

\* A matter was created in an intake whose AI response named a service that
\* is not in the catalog
C11_Reached ==
  /\ matters # << >>
  /\ IsSome(aiRecommendation)
  /\ Get(aiRecommendation).serviceId \notin C11_Catalog


\* C12: the wizard is strictly sequential: every forward change of the
\* wizard step goes from step k to step k+1; no step is skipped going
\* forward.
C12_StrictlySequential ==
  [][ intakeStep' > intakeStep => intakeStep' = intakeStep + 1 ]_vars


\* C13: after the user confirms going back to an earlier step k in the
\* navigation modal, the Pay step is reached again only by passing through
\* every step after k in order and signing the engagement letter again;
\* going back to Jurisdiction or Triage additionally clears the selected
\* service and the AI recommendation.
C13_BackThenEveryStepAgain ==
  /\ [][ HandleNavConfirm
           => /\ intakeStep' = Get(navTarget)
              /\ intakeData'.signature = None
              /\ Get(navTarget) <= StepTriage
                   => /\ intakeData'.serviceId = NoService
                      /\ aiRecommendation' = None ]_vars
  /\ [][ (intakeStep' = StepPay /\ intakeStep # StepPay)
           => LetterShown /\ IsSome(intakeData'.signature) ]_vars
  /\ [](intakeStep = StepPay => intakeHistory.due = NoDue)


\* The audit log of a matter has the fixed shape
C14_Shape(m) ==
  LET log == m.auditLog
  IN  /\ Len(log) \in { 2, 3 }
      /\ log[1].action = "MATTER_CREATED"
      /\ log[2].action = "AGREEMENT_SIGNED"
      /\ Len(log) = 3 <=> m.status = "conflict_flagged"
      /\ Len(log) = 3 => log[3].action = "CONFLICT_DETECTED"

\* C14: every matter's audit log is append-only and has a fixed shape: its
\* first entry is MATTER_CREATED, its second AGREEMENT_SIGNED, and a third
\* entry CONFLICT_DETECTED is present exactly when the matter's status is
\* 'conflict_flagged'; no entry is removed or changed afterwards.
C14_AuditLogShape ==
  /\ [](\A k \in 1..Len(matters) : C14_Shape(matters[k]))
  /\ [][ /\ Len(matters') >= Len(matters)
         /\ \A k \in 1..Len(matters) :
              /\ Len(matters'[k].auditLog) >= Len(matters[k].auditLog)
              /\ \A i \in 1..Len(matters[k].auditLog) :
                   matters'[k].auditLog[i] = matters[k].auditLog[i] ]_vars

\* A flagged matter with its three entries, after its client signed out
C14_Reached ==
  /\ user = None
  /\ view = "home"
  /\ \E k \in 1..Len(matters) :
       /\ matters[k].status = "conflict_flagged"
       /\ Len(matters[k].auditLog) = 3


\* C15: the wizard moves from Details to Contact only with a non-empty
\* description, and every created matter has a non-empty description.
C15_DescriptionRequired ==
  /\ [][ (intakeStep = StepDetails /\ intakeStep' = StepContact)
           => /\ IsSome(intakeData.details.description)
              /\ Get(intakeData.details.description) # << >> ]_vars
  /\ [](\A k \in 1..Len(matters) :
          /\ IsSome(matters[k].data.details.description)
          /\ Get(matters[k].data.details.description) # << >>)

\* A matter was created in an intake whose triage gave no recommendation
C15_Reached ==
  /\ matters # << >>
  /\ aiRecommendation = None
  /\ IsSome(matters[1].data.details.description)


C17_FromThisService(data) ==
  /\ data.serviceId # "contract_review" => data.details.pageCount = PcUndefined
  /\ data.serviceId \notin OpposingPartyServices => data.details.opposingParty = None

\* C17: whenever the user chooses (in the catalog or by confirming the AI
\* recommendation) a service other than the one the current details were
\* entered under, the Details step is reached with only the description
\* kept; so the details shown at the Details step, and those of every created
\* matter, hold no page count or opposing party entered for another service.
C17_DetailsResetOnServiceChange ==
  /\ (view = "intake" /\ intakeStep = StepDetails) => C17_FromThisService(intakeData)
  /\ \A k \in 1..Len(matters) : C17_FromThisService(matters[k].data)


\* What is charged for a signed fee: the fee itself, or one and a half times
\* the fee for a rush (written as 2 * total = 3 * fee), and never less
C18_Charged(fee, urgency, total) ==
  /\ urgency \in Urgencies
  /\ urgency = "standard" => total = fee
  /\ urgency = "rush" => 2 * total = 3 * fee
  /\ total >= fee

\* C18: the fee shown in the engagement letter equals the base + complexity
\* subtotal of the Pay step for the same data, for every service and page
\* count; the amount charged is the signed fee under standard urgency and
\* exactly 1.5 times the signed fee under rush, never less.
C18_LetterFeeIsPaySubtotal ==
  /\ []((LetterShown \/ PayShown) =>
          LET b == PriceBreakdown(intakeData.serviceId, intakeData, intakeData.urgency)
          IN  DisplayPrice(intakeData) = b.base + b.complexity)
  /\ [][ (HandleSignature \/ (PayShown /\ PayShown'))
           => C18_Charged(DisplayPrice(intakeData), intakeData'.urgency, CheckoutTotal') ]_vars
  /\ [](\A k \in 1..Len(matters) :
          C18_Charged(DisplayPrice(matters[k].data), matters[k].data.urgency,
                      matters[k].price))

\* A letter showing $400 for a 25-page contract was signed and $600 paid
\* for the rush
C18_Reached ==
  \E k \in 1..Len(matters) :
    /\ matters[k].data.serviceId = "contract_review"
    /\ matters[k].data.details.pageCount = PcNumber(25)
    /\ DisplayPrice(matters[k].data) = 400
    /\ matters[k].price = 600


\* C19: the complexity adjustment is $10 per page above 10 for a contract
\* review (0 when the page count is at most 10, missing or NaN), a flat $200
\* for filing a lawsuit and 0 for every other service; the total is a whole
\* number of dollars (half the subtotal is exact) and not below the base price.
C19_ComplexityAndWholeTotal ==
  PayShown =>
    LET b  == PriceBreakdown(intakeData.serviceId, intakeData, intakeData.urgency)
        pc == intakeData.details.pageCount
    IN  /\ intakeData.serviceId = "contract_review" =>
             b.complexity = IF pc.kind = "number" /\ pc.n > 10 THEN 10 * (pc.n - 10) ELSE 0
        /\ intakeData.serviceId = "filing_lawsuit" => b.complexity = 200
        /\ intakeData.serviceId \notin { "contract_review", "filing_lawsuit" } =>
             b.complexity = 0
        /\ intakeData.urgency = "rush" => 2 * b.rush = b.base + b.complexity
        /\ b.total \in Nat
        /\ b.total >= b.base

\* The Pay step of a rush contract review whose page count field holds NaN:
\* 250 + 0 + 125
C19_Reached ==
  /\ PayShown
  /\ intakeData.serviceId = "contract_review"
  /\ intakeData.details.pageCount = PcNaN
  /\ intakeData.urgency = "rush"
  /\ CheckoutTotal = 375


\* C20: after a triage response that contains a serviceId, the Service step
\* shows the single-recommendation confirmation screen when the confidence
\* is not 'low', and the full catalog with the recommended service marked
\* when it is 'low'; "No, show me all services" switches from the
\* recommendation screen to the catalog without selecting a service.
C20_RecommendationOrMarkedCatalog ==
  /\ [][ \A k \in 1..Len(pendingTriage), outcome \in AiOutcomes :
           (TriageResponse(k, outcome) /\ outcome.kind = "ok" /\ view' = "intake")
             => IF outcome.confidence # "low"
                THEN RecommendationShown'
                ELSE /\ CatalogShown'
                     /\ \E i \in 1..Len(SERVICES) :
                          SERVICES[i].id = Get(aiRecommendation').serviceId ]_vars
  /\ [][ ShowCatalog => /\ CatalogShown'
                        /\ intakeData'.serviceId = intakeData.serviceId ]_vars


\* C21: the matter list of the attorney dashboard is displayed only while
\* the logged-in user has role 'admin'; an unauthenticated visitor or a
\* client-role user (the user checkout logs in included) never sees stored
\* matters.
C21_MattersOnlyForAdmin ==
  MatterListShown => (user # None /\ Get(user).role = "admin")

\* The client logged in by checkout is in the portal: a matter is stored
\* and no matter list is on screen
C21_Reached ==
  /\ matters # << >>
  /\ user # None
  /\ Get(user).role = "client"
  /\ view = "portal"
  /\ ~MatterListShown


\* The number a figure with grouping commas stands for
RECURSIVE C22_Value(_)
C22_Value(fig) ==
  IF fig = << >> THEN 0
  ELSE LET c == fig[Len(fig)]
           rest == SubSeq(fig, 1, Len(fig) - 1)
       IN  IF c = "," THEN C22_Value(rest)
           ELSE 10 * C22_Value(rest)
                + (CHOOSE v \in 0..9 :
                     << "0", "1", "2", "3", "4", "5", "6", "7", "8", "9" >>[v + 1] = c)

\* The sum of the prices of the stored matters
RECURSIVE C22_Sum(_)
C22_Sum(k) == IF k = 0 THEN 0 ELSE C22_Sum(k - 1) + matters[k].price

C23_LateResponseIgnored ==
  [][ \A k \in 1..Len(pendingTriage), outcome \in AiOutcomes :
        (TriageResponse(k, outcome) /\ ~TriageMounted(view, intakeStep))
          => /\ intakeStep' = intakeStep
             /\ aiRecommendation' = aiRecommendation
             /\ intakeData'.details.description = intakeData.details.description ]_vars


\* C24: no signature survives outside the Pay step: whenever the intake
\* wizard shows a step before Pay, intakeData.signature is undefined.
C24_NoSignatureBeforePay ==
  (view = "intake" /\ intakeStep < StepPay) => intakeData.signature = None


\* C25: Start Intake always begins a fresh intake: after startIntake the
\* wizard is at the Jurisdiction step with no selected service, empty
\* details, no documents, empty contact, no signature, standard urgency and
\* no AI recommendation, whatever a previous intake left behind; the
\* logged-in user is unchanged.
C25_StartIntakeIsFresh ==
  [][ StartIntake
        => /\ view' = "intake"
           /\ intakeStep' = StepJurisdiction
           /\ intakeData'.serviceId = NoService
           /\ intakeData'.details =
                [ description |-> None, pageCount |-> PcUndefined, opposingParty |-> None ]
           /\ intakeData'.documents = << >>
           /\ intakeData'.contact = [ name |-> << >>, email |-> << >>, phone |-> << >> ]
           /\ intakeData'.signature = None
           /\ intakeData'.urgency = "standard"
           /\ aiRecommendation' = None
           /\ user' = user ]_vars

\* The client who paid for a matter started another intake: the wizard is
\* at the Jurisdiction step with an empty form
C25_Reached ==
  /\ matters # << >>
  /\ user # None
  /\ Get(user).role = "client"
  /\ view = "intake"
  /\ intakeStep = StepJurisdiction
  /\ intakeData.contact.name = << >>
  /\ intakeData.signature = None


\* C26: the Service step is never a dead end: whenever the wizard shows the
\* Service step, either the recommendation of a catalog service (with its
\* confirm and show-catalog actions) or the full catalog is displayed.
C26_ServiceStepNeverEmpty ==
  (view = "intake" /\ intakeStep = StepService)
    => \/ /\ RecommendationShown
          /\ \E i \in 1..Len(SERVICES) : SERVICES[i].id = Get(aiRecommendation).serviceId
       \/ CatalogShown


\* local@domain.tld without whitespace: one "@", not first, and a "." with
\* at least one character between the "@" and it and one after it
C27_EmailForm(email) ==
  /\ \A k \in 1..Len(email) : email[k] \notin { " ", "\t", "\n" }
  /\ Cardinality({ k \in 1..Len(email) : email[k] = "@" }) = 1
  /\ \E i \in 2..Len(email) :
       /\ email[i] = "@"
       /\ \E j \in (i + 2)..(Len(email) - 1) : email[j] = "."

\* The four conditions on the contact form
C27_Conditions ==
  /\ intakeData.contact.name # << >>
  /\ C27_EmailForm(intakeData.contact.email)
  /\ contactForm.confirmEmail = intakeData.contact.email
  /\ Cardinality({ k \in 1..Len(intakeData.contact.phone) :
                     intakeData.contact.phone[k] \in
                       { "0", "1", "2", "3", "4", "5", "6", "7", "8", "9" } }) = 10

\* C27: the wizard advances from Contact to Sign only when the contact name
\* is non-empty, the email has the form local@domain.tld without whitespace,
\* the confirmation email equals the email and the phone contains exactly 10
\* digits; conversely, whenever all four hold the Review Agreement button
\* is enabled (no stale field-error message blocks it).
C27_ContactGate ==
  /\ [][ (intakeStep = StepContact /\ intakeStep' = StepReview) => C27_Conditions ]_vars
  /\ []((ContactShown /\ C27_Conditions) => IsComplete(intakeData.contact, contactForm))

\* The wizard went on to the Sign step with a complete contact
C27_Reached ==
  /\ view = "intake"
  /\ intakeStep = StepReview
  /\ intakeData.contact.name = Str_Al
  /\ intakeData.contact.email = Str_email
  /\ intakeData.contact.phone = FormatPhoneNumber(Str_phone)


\* C28: a signature is never accepted for a blank name: handleSignature
\* occurs only when the typed signature contains a character that is not
\* whitespace, the contact name at the Sign step being neither empty nor
\* whitespace-only.
C28_NoBlankSignature ==
  [][ HandleSignature
        => /\ \E k \in 1..Len(letter.signature) :
                letter.signature[k] \notin { " ", "\t", "\n" }
           /\ \E k \in 1..Len(intakeData.contact.name) :
                intakeData.contact.name[k] \notin { " ", "\t", "\n" } ]_vars


\* C29: failed admin credentials do not log in: a wrong password leaves the
\* auth flow on the password step with the error 'Invalid password.', a
\* wrong MFA code leaves it on the MFA step with the error 'Invalid MFA
\* code.', in both cases with the logged-in user and the view unchanged; and
\* a step shows an error message only for a failed submission on that step.
C29_FailedCredentials ==
  /\ [][ (AuthTimerFire /\ Get(authTimer).kind = "password"
                        /\ Get(authTimer).text # Str_legal123)
           => /\ auth'.step = "password"
              /\ auth'.error = "Invalid password."
              /\ user' = user
              /\ view' = view ]_vars
  /\ [][ (AuthTimerFire /\ Get(authTimer).kind = "mfa"
                        /\ Get(authTimer).text # Str_123456)
           => /\ auth'.step = "mfa"
              /\ auth'.error = "Invalid MFA code."
              /\ user' = user
              /\ view' = view ]_vars
  /\ [](AuthShown =>
          /\ auth.step = "password" => auth.error \in { "", "Invalid password." }
          /\ auth.step = "mfa" => auth.error \in { "", "Invalid MFA code." })

====
